---- MODULE Spec2Model ----
(***************************************************************************)
(* Model of autogpt/commands/git_operations.py (clone_repository) and      *)
(* autogpt/llm_utils.py (call_ai_function, create_chat_completion,         *)
(* create_embedding_with_ada).                                             *)
(*                                                                         *)
(* Python strings that the code takes apart or builds (URLs, the joined    *)
(* argument text, returned messages) are sequences of one-character        *)
(* strings.  Strings the code only passes along (model names, API keys,    *)
(* message contents of a chat) are TLA+ strings.  An optional Python value *)
(* is None == <<>> or Some(x) == <<x>>.  Temperatures are in tenths.       *)
(***************************************************************************)
EXTENDS Integers, Sequences, FiniteSets, TLC

VARIABLES
    cfg,            \* the Config object handed to the llm_utils functions
    global_config,  \* git_operations.global_config (module-level Config())
    op,             \* the operation that has just run, "none" between invocations
    call,           \* the arguments of that invocation
    outcome,        \* what the external primitive / provider did in it
    sent,           \* the requests issued to the external primitive, in order
    resolved,       \* model names handed to cfg.get_azure_deployment_id_for_model
    log,            \* what the invocation printed (tags)
    result          \* how the invocation ended: a returned value or a raised fault

vars == <<cfg, global_config, op, call, outcome, sent, resolved, log, result>>

----------------------------------------------------------------------------
(* Bounds *)

MaxRest == 4      \* characters of a URL after its "scheme//"
MaxArgs == 3      \* arguments of an AI function call
MaxChoices == 2   \* choices / data entries in a provider response

----------------------------------------------------------------------------
(* Python values *)

None == <<>>
Some(x) == <<x>>

\* binding of a keyword parameter: the passed value, or the declared default
Bind(arg, default) == IF arg.passed THEN arg.value ELSE default
Omitted == [passed |-> FALSE, value |-> None]
Passed(v) == [passed |-> TRUE, value |-> v]

SeqsUpTo(S, n) == UNION {[1..k -> S] : k \in 0..n}

\* s.startswith(p)
StartsWith(s, p) == Len(s) >= Len(p) /\ SubSeq(s, 1, Len(p)) = p

\* index of the first occurrence of sep in s at or after i, 0 when there is none
RECURSIVE FindFrom(_, _, _)
FindFrom(s, sep, i) ==
    IF i + Len(sep) - 1 > Len(s) THEN 0
    ELSE IF SubSeq(s, i, i + Len(sep) - 1) = sep THEN i
    ELSE FindFrom(s, sep, i + 1)

\* str.split(sep): cut at every non-overlapping occurrence, left to right
RECURSIVE Split(_, _)
Split(s, sep) ==
    LET i == FindFrom(s, sep, 1) IN
    IF i = 0 THEN <<s>>
    ELSE <<SubSeq(s, 1, i - 1)>> \o Split(SubSeq(s, i + Len(sep), Len(s)), sep)

\* sep.join(parts)
RECURSIVE Join(_, _)
Join(sep, parts) ==
    IF Len(parts) = 0 THEN <<>>
    ELSE IF Len(parts) = 1 THEN parts[1]
    ELSE parts[1] \o sep \o Join(sep, Tail(parts))

----------------------------------------------------------------------------
(* How an invocation ends *)

Return(v) == [kind |-> "return", value |-> v, exc |-> "", msg |-> None]
Raise(e, m) == [kind |-> "raise", value |-> None, exc |-> e, msg |-> m]
NoResult == [kind |-> "none", value |-> None, exc |-> "", msg |-> None]

----------------------------------------------------------------------------
(* autogpt/commands/git_operations.py *)

Scheme == <<"h", ":">>
SchemeSep == <<"/", "/">>

\* repository URLs that pass @validate_url: a scheme, "//", a host that
\* starts with a non-slash character, then any path
ValidUrls ==
    {Scheme \o SchemeSep \o <<"a">> \o r : r \in SeqsUpTo({"a", "/"}, MaxRest - 1)}

ClonePaths == {<<"d">>}

\* the command is offered only when both credentials are configured (truthy)
GlobalConfigs ==
    [github_username : {<<"u">>}, github_api_key : {<<"k">>}]

NameErrorMsg ==
    <<"n", "a", "m", "e", " ", "'", "R", "e", "p", "o", "'", " ", "i", "s", " ",
      "n", "o", "t", " ", "d", "e", "f", "i", "n", "e", "d">>

FaultMsgs == {<<>>, <<"f">>}

\* What line 32 can do.  The import of Repo (line 2) is commented out, so the
\* lookup of the global name Repo raises NameError unless the embedding
\* program binds it; when it is bound, clone_from completes or raises.
CloneOutcomes ==
    {[kind |-> "ok", exc |-> "", msg |-> None]}
    \cup {[kind |-> "raise", exc |-> e, msg |-> m] :
             e \in {"GitCommandError", "OSError"}, m \in FaultMsgs}
    \cup {[kind |-> "unbound", exc |-> "NameError", msg |-> NameErrorMsg]}

\* lines 29-30
AuthRepoUrl(gc, repository_url) ==
    LET split_url == Split(repository_url, SchemeSep)
        sep == SchemeSep \o gc.github_username \o <<":">> \o gc.github_api_key \o <<"@">>
    IN  Join(sep, split_url)

\* line 32: the call reaches the primitive only when the name Repo is bound
CloneSent(gc, repository_url, clone_path, o) ==
    IF o.kind = "unbound" THEN <<>>
    ELSE <<[endpoint |-> "Repo.clone_from",
            url |-> AuthRepoUrl(gc, repository_url),
            to_path |-> clone_path]>>

\* classes that "except Exception" catches
ExceptionSubclasses == {"GitCommandError", "OSError", "NameError"}

\* variant: the handler names the library's own fault class only
CloneResultNarrow(repository_url, clone_path, o) ==
    IF o.kind = "ok"
    THEN Return(<<"C", "l", "o", "n", "e", "d", " ">> \o repository_url
                \o <<" ", "t", "o", " ">> \o clone_path)
    ELSE IF o.exc = "GitCommandError"
    THEN Return(<<"E", "r", "r", "o", "r", ":", " ">> \o o.msg)
    ELSE Raise(o.exc, o.msg)

\* lines 31-35
CloneResult(repository_url, clone_path, o) ==
    IF o.kind = "ok"
    THEN Return(<<"C", "l", "o", "n", "e", "d", " ">> \o repository_url
                \o <<" ", "t", "o", " ">> \o clone_path)
    ELSE IF o.exc \in ExceptionSubclasses
    THEN Return(<<"E", "r", "r", "o", "r", ":", " ">> \o o.msg)
    ELSE Raise(o.exc, o.msg)

clone_repository ==
    /\ op = "none"
    /\ \E repository_url \in ValidUrls, clone_path \in ClonePaths, o \in CloneOutcomes :
        /\ op' = "clone_repository"
        /\ call' = [repository_url |-> repository_url, clone_path |-> clone_path]
        /\ outcome' = o
        /\ sent' = CloneSent(global_config, repository_url, clone_path, o)
        /\ resolved' = <<>>
        /\ log' = <<>>
        /\ result' = CloneResult(repository_url, clone_path, o)
        /\ UNCHANGED <<cfg, global_config>>

----------------------------------------------------------------------------
(* The configuration consumed by autogpt/llm_utils.py *)

ChatModels == {"gpt-3.5-turbo", "gpt-4"}
EmbeddingModel == "text-embedding-ada-002"
Temperatures == {0, 7}

AzureDeployments ==
    [m \in ChatModels \cup {EmbeddingModel} |->
        CASE m = "gpt-3.5-turbo" -> "dep-fast"
          [] m = "gpt-4" -> "dep-smart"
          [] OTHER -> "dep-embed"]

Cfgs ==
    [fast_llm_model : ChatModels,
     smart_llm_model : {"gpt-4"},
     temperature : Temperatures,
     debug_mode : BOOLEAN,
     use_azure : BOOLEAN,
     openai_api_key : {"sk-key"},
     azure_model_to_deployment_id_map : {AzureDeployments}]

\* cfg.get_azure_deployment_id_for_model(model)
get_azure_deployment_id_for_model(c, model) ==
    c.azure_model_to_deployment_id_map[model]

----------------------------------------------------------------------------
(* What the provider does with one request *)

ProviderFaults == {"RateLimitError", "APIError", "Timeout"}

Fault(e) == [kind |-> "raise", exc |-> e, msg |-> <<e, "from provider">>, response |-> None]
NoResponse == [kind |-> "none", exc |-> "", msg |-> None, response |-> None]
Responded(r) == [kind |-> "response", exc |-> "", msg |-> None, response |-> Some(r)]

Contents == {"a", "b"}
Choices == {[message |-> [content |-> c]] : c \in Contents}
ChatResponses == [choices : SeqsUpTo(Choices, MaxChoices), usage : {1, 2}]
ChatOutcomes ==
    {Fault(e) : e \in ProviderFaults} \cup {NoResponse}
    \cup {Responded(r) : r \in ChatResponses}

Vectors == {<<1, 2>>, <<3, 4>>}
DataEntries == {[embedding |-> v] : v \in Vectors}
EmbeddingResponses == [data : SeqsUpTo(DataEntries, MaxChoices), usage : {1, 2}]
EmbeddingOutcomes ==
    {Fault(e) : e \in ProviderFaults} \cup {NoResponse}
    \cup {Responded(r) : r \in EmbeddingResponses}

\* the keyword arguments of one openai.*.create call; None marks a keyword
\* that is not passed
Request(endpoint, deployment_id, engine, model, messages, input, temperature, max_tokens, api_key) ==
    [endpoint |-> endpoint, deployment_id |-> deployment_id, engine |-> engine,
     model |-> model, messages |-> messages, input |-> input,
     temperature |-> temperature, max_tokens |-> max_tokens, api_key |-> api_key]

----------------------------------------------------------------------------
(* create_chat_completion *)

\* line 49
DefaultModelParameter == Some("gpt-3.5-turbo")

\* lines 64-65
DefaultModel(model, c) == IF model = None THEN c.fast_llm_model ELSE model[1]

\* variant: "if not temperature", which takes 0 for unset
DefaultTemperatureFalsy(temperature, c) ==
    IF temperature = None \/ temperature = Some(0) THEN c.temperature ELSE temperature[1]

\* lines 67-68
DefaultTemperature(temperature, c) ==
    IF temperature = None THEN c.temperature ELSE temperature[1]

\* variant: the azure branch passes the model name as the deployment id
ChatRequestRawTarget(c, model, messages, temperature, max_tokens) ==
    IF c.use_azure
    THEN Request("ChatCompletion", Some(model), None, Some(model), messages, None,
                 Some(temperature), max_tokens, None)
    ELSE Request("ChatCompletion", None, None, Some(model), messages, None,
                 Some(temperature), max_tokens, Some(c.openai_api_key))

\* lines 78-93: the keyword arguments of the ChatCompletion.create call
ChatRequest(c, model, messages, temperature, max_tokens) ==
    IF c.use_azure
    THEN Request("ChatCompletion", Some(get_azure_deployment_id_for_model(c, model)),
                 None, Some(model), messages, None, Some(temperature), max_tokens, None)
    ELSE Request("ChatCompletion", None, None, Some(model), messages, None,
                 Some(temperature), max_tokens, Some(c.openai_api_key))

\* variant: "if" without "else", the azure branch falls through to the direct call
ChatSentTwice(c, model, messages, temperature, max_tokens) ==
    IF c.use_azure
    THEN <<Request("ChatCompletion", Some(get_azure_deployment_id_for_model(c, model)),
                   None, Some(model), messages, None, Some(temperature), max_tokens, None),
           Request("ChatCompletion", None, None, Some(model), messages, None,
                   Some(temperature), max_tokens, Some(c.openai_api_key))>>
    ELSE <<Request("ChatCompletion", None, None, Some(model), messages, None,
                   Some(temperature), max_tokens, Some(c.openai_api_key))>>

\* lines 77-93: the provider calls of one invocation, in order
ChatSent(c, model, messages, temperature, max_tokens) ==
    <<ChatRequest(c, model, messages, temperature, max_tokens)>>

\* line 80: the lookups of one invocation
ChatResolved(c, model) == IF c.use_azure THEN <<model>> ELSE <<>>

\* variant: choices[-1]
ChatExtractLast(response) ==
    IF Len(response.choices) = 0
    THEN Raise("IndexError", <<"list index out of range">>)
    ELSE Return(response.choices[Len(response.choices)].message.content)

\* line 111
ChatExtract(response) ==
    IF Len(response.choices) = 0
    THEN Raise("IndexError", <<"list index out of range">>)
    ELSE Return(response.choices[1].message.content)

\* variant: no "response is None" test before the response is read
ChatResultNoCheck(model, o) ==
    IF o.kind = "raise" THEN Raise(o.exc, o.msg)
    ELSE IF o.kind = "none"
    THEN Raise("AttributeError", <<"'NoneType' object has no attribute 'choices'">>)
    ELSE ChatExtract(o.response[1])

\* lines 94-111: what becomes of the provider's reaction
ChatResult(model, o) ==
    IF o.kind = "raise" THEN Raise(o.exc, o.msg)
    ELSE IF o.kind = "none"
    THEN Raise("RuntimeError", <<"Failed to get response from model ", model>>)
    ELSE ChatExtract(o.response[1])

\* lines 70-75, 95-100, 103, 109: console output
ChatLog(c, o) ==
    (IF c.debug_mode THEN <<"Creating chat completion">> ELSE <<>>)
    \o (CASE o.kind = "raise" /\ o.exc = "RateLimitError" ->
                <<"RATE LIMIT ERROR">>
                \o (IF c.debug_mode THEN <<"Reached rate limit, passing...">> ELSE <<>>)
          [] o.kind = "raise" /\ o.exc = "APIError" -> <<"API ERROR">>
          [] o.kind = "response" -> <<"CHAT COMPLETION TOOK">>
          [] OTHER -> <<>>)

\* lines 46-111, as a function of the arguments and the provider's reaction
create_chat_completion(messages, c, modelArg, temperatureArg, max_tokensArg, o) ==
    LET model == DefaultModel(Bind(modelArg, DefaultModelParameter), c)
        temperature == DefaultTemperature(Bind(temperatureArg, None), c)
        max_tokens == Bind(max_tokensArg, None)
    IN  [sent |-> ChatSent(c, model, messages, temperature, max_tokens),
         resolved |-> ChatResolved(c, model),
         log |-> ChatLog(c, o),
         result |-> ChatResult(model, o)]

Conversations == {<<[role |-> "user", content |-> "hi"]>>}
ModelArgs == {Omitted, Passed(None)} \cup {Passed(Some(m)) : m \in ChatModels}
TemperatureArgs == {Omitted, Passed(Some(0)), Passed(Some(5))}
MaxTokensArgs == {Omitted, Passed(Some(100))}

ChatCompletion ==
    /\ op = "none"
    /\ \E messages \in Conversations, modelArg \in ModelArgs,
          temperatureArg \in TemperatureArgs, max_tokensArg \in MaxTokensArgs,
          o \in ChatOutcomes :
        \E r \in {create_chat_completion(messages, cfg, modelArg, temperatureArg,
                                         max_tokensArg, o)} :
            /\ op' = "create_chat_completion"
            /\ call' = [messages |-> messages, model |-> modelArg,
                        temperature |-> temperatureArg, max_tokens |-> max_tokensArg]
            /\ outcome' = o
            /\ sent' = r.sent
            /\ resolved' = r.resolved
            /\ log' = r.log
            /\ result' = r.result
            /\ UNCHANGED <<cfg, global_config>>

----------------------------------------------------------------------------
(* call_ai_function *)

Digit(d) ==
    CASE d = 0 -> "0" [] d = 1 -> "1" [] d = 2 -> "2" [] d = 3 -> "3" [] d = 4 -> "4"
      [] d = 5 -> "5" [] d = 6 -> "6" [] d = 7 -> "7" [] d = 8 -> "8" [] d = 9 -> "9"

\* str(n) of an int
RECURSIVE StrInt(_)
StrInt(n) ==
    IF n < 0 THEN <<"-">> \o StrInt(0 - n)
    ELSE IF n < 10 THEN <<Digit(n)>>
    ELSE StrInt(n \div 10) \o <<Digit(n % 10)>>

\* the argument values: an int, None, a str
IntArg(n) == [t |-> "int", n |-> n, s |-> <<>>]
NoneArg == [t |-> "none", n |-> 0, s |-> <<>>]
StrArg(s) == [t |-> "str", n |-> 0, s |-> s]

\* line 29, one element: str(arg) if arg is not None else "None"
ArgText(arg) ==
    IF arg.t = "none" THEN <<"N", "o", "n", "e">>
    ELSE IF arg.t = "int" THEN StrInt(arg.n)
    ELSE arg.s

\* variant: ",".join(args)
SArgsComma(args) == Join(<<",">>, [i \in 1..Len(args) |-> ArgText(args[i])])

\* lines 29-31
SArgs(args) == Join(<<",", " ">>, [i \in 1..Len(args) |-> ArgText(args[i])])

\* lines 32-39 (a backquote of the source text is written ' here)
AIFunctionMessages(function, args, description) ==
    <<[role |-> "system",
       content |-> <<"You are now the following python function: '''# ", description,
                     "\n", function, "'''", "\n", "\n", "Only respond with your 'return' value.">>],
      [role |-> "user", content |-> SArgs(args)]>>

\* lines 26-27
AIFunctionModel(model, c) == IF model = None THEN c.smart_llm_model ELSE model[1]

\* line 41: the temperature keyword of the delegated call
AIFunctionTemperature == Passed(Some(0))

\* lines 9-41
call_ai_function(function, args, description, c, modelArg, o) ==
    create_chat_completion(AIFunctionMessages(function, args, description), c,
                           Passed(Some(AIFunctionModel(Bind(modelArg, None), c))),
                           AIFunctionTemperature, Omitted, o)

ArgValues == {IntArg(1), NoneArg, StrArg(<<"x">>)}
ArgLists == SeqsUpTo(ArgValues, MaxArgs)
Functions == {"def f(a): ..."}
Descriptions == {"does f"}
AIModelArgs == {Omitted, Passed(None), Passed(Some("gpt-3.5-turbo"))}

NaturalFunctionCall ==
    /\ op = "none"
    /\ \E function \in Functions, args \in ArgLists, description \in Descriptions,
          modelArg \in AIModelArgs, o \in ChatOutcomes :
        \E r \in {call_ai_function(function, args, description, cfg, modelArg, o)} :
            /\ op' = "call_ai_function"
            /\ call' = [function |-> function, args |-> args,
                        description |-> description, model |-> modelArg]
            /\ outcome' = o
            /\ sent' = r.sent
            /\ resolved' = r.resolved
            /\ log' = r.log
            /\ result' = r.result
            /\ UNCHANGED <<cfg, global_config>>

----------------------------------------------------------------------------
(* create_embedding_with_ada *)

\* lines 117-129: the keyword arguments of the Embedding.create call
EmbeddingRequest(c, text) ==
    IF c.use_azure
    THEN Request("Embedding", None,
                 Some(get_azure_deployment_id_for_model(c, EmbeddingModel)),
                 None, None, Some(<<text>>), None, None, None)
    ELSE Request("Embedding", None, None, Some(EmbeddingModel), None, Some(<<text>>),
                 None, None, Some(c.openai_api_key))

\* lines 116-129: the provider calls of one invocation, in order
EmbeddingSent(c, text) == <<EmbeddingRequest(c, text)>>

\* lines 120-122: the lookups of one invocation
EmbeddingResolved(c) == IF c.use_azure THEN <<EmbeddingModel>> ELSE <<>>

\* lines 123, 129: [...]["data"][0]["embedding"]
EmbeddingExtract(response) ==
    IF Len(response.data) = 0
    THEN Raise("IndexError", <<"list index out of range">>)
    ELSE Return(response.data[1].embedding)

\* variant: the rate-limit handler returns None instead of raising
EmbeddingResultAbsent(o) ==
    IF o.kind = "raise" /\ o.exc = "RateLimitError" THEN Return(None)
    ELSE IF o.kind = "raise" THEN Raise(o.exc, o.msg)
    ELSE IF o.kind = "none"
    THEN Raise("TypeError", <<"'NoneType' object is not subscriptable">>)
    ELSE EmbeddingExtract(o.response[1])

\* lines 116-135: what becomes of the provider's reaction
EmbeddingResult(o) ==
    IF o.kind = "raise" THEN Raise(o.exc, o.msg)
    ELSE IF o.kind = "none"
    THEN Raise("TypeError", <<"'NoneType' object is not subscriptable">>)
    ELSE EmbeddingExtract(o.response[1])

\* lines 131, 134
EmbeddingLog(o) ==
    CASE o.kind = "raise" /\ o.exc = "RateLimitError" -> <<"RATE LIMIT ERROR">>
      [] o.kind = "raise" /\ o.exc = "APIError" -> <<"API ERROR">>
      [] OTHER -> <<>>

Texts == {"t1", "t2"}

EmbeddingLookup ==
    /\ op = "none"
    /\ \E text \in Texts, o \in EmbeddingOutcomes :
        /\ op' = "create_embedding_with_ada"
        /\ call' = [text |-> text]
        /\ outcome' = o
        /\ sent' = EmbeddingSent(cfg, text)
        /\ resolved' = EmbeddingResolved(cfg)
        /\ log' = EmbeddingLog(o)
        /\ result' = EmbeddingResult(o)
        /\ UNCHANGED <<cfg, global_config>>

----------------------------------------------------------------------------

\* Control is back with the caller: nothing of an invocation outlives it (the
\* functions keep no state of their own), and the caller may invoke again.
CallerResumes ==
    /\ op # "none"
    /\ op' = "none"
    /\ call' = None
    /\ outcome' = NoResponse
    /\ sent' = <<>>
    /\ resolved' = <<>>
    /\ log' = <<>>
    /\ result' = NoResult
    /\ UNCHANGED <<cfg, global_config>>

Init ==
    /\ cfg \in Cfgs
    /\ global_config \in GlobalConfigs
    /\ op = "none"
    /\ call = None
    /\ outcome = NoResponse
    /\ sent = <<>>
    /\ resolved = <<>>
    /\ log = <<>>
    /\ result = NoResult

Next ==
    \/ clone_repository
    \/ ChatCompletion
    \/ NaturalFunctionCall
    \/ EmbeddingLookup
    \/ CallerResumes

Spec == Init /\ [][Next]_vars

----------------------------------------------------------------------------
(* Properties *)

ChatOps == {"create_chat_completion", "call_ai_function"}
GatewayOps == ChatOps \cup {"create_embedding_with_ada"}
ErrorPrefix == <<"E", "r", "r", "o", "r", ":">>

\* the credentials text "username:apikey@"
Credentials ==
    global_config.github_username \o <<":">> \o global_config.github_api_key \o <<"@">>

\* url with ins placed right after its first "//"
InsertAfterFirstSep(url, ins) ==
    LET i == FindFrom(url, SchemeSep, 1)
    IN  SubSeq(url, 1, i - 1) \o SchemeSep \o ins \o SubSeq(url, i + 2, Len(url))

\* C1: the URL handed to the clone primitive is the repository URL with
\* "username:apikey@" inserted exactly once, right after the first "//",
\* also when the rest of the URL contains further "//".
C1_CredentialsOnceAfterScheme ==
    (op = "clone_repository" /\ sent # <<>>) =>
        sent[1].url = InsertAfterFirstSep(call.repository_url, Credentials)

C3_UnsetModelIsFastModel ==
    op = "create_chat_completion" =>
        /\ (~call.model.passed \/ call.model.value = None) =>
              sent[1].model = Some(cfg.fast_llm_model)
        /\ (~call.temperature.passed \/ call.temperature.value = None) =>
              sent[1].temperature = Some(cfg.temperature)

C6_AzureRoutesThroughResolver ==
    op \in GatewayOps =>
        LET req == sent[1]
            name == IF op \in ChatOps THEN req.model[1] ELSE EmbeddingModel
            target == IF op \in ChatOps THEN req.deployment_id ELSE req.engine
        IN  IF cfg.use_azure
            THEN /\ target = Some(cfg.azure_model_to_deployment_id_map[name])
                 /\ target # Some(name)
                 /\ resolved = <<name>>
                 /\ req.api_key = None
                 /\ op = "create_embedding_with_ada" => req.model = None
            ELSE /\ req.deployment_id = None
                 /\ req.engine = None
                 /\ req.model = Some(name)
                 /\ req.model # None
                 /\ req.api_key = Some(cfg.openai_api_key)
                 /\ resolved = <<>>

C6_Witness ==
    /\ op = "create_chat_completion"
    /\ cfg.use_azure
    /\ call.model = Passed(Some("gpt-4"))
    /\ sent[1].deployment_id = Some("dep-smart")
    /\ resolved = <<"gpt-4">>

\* C7: a gateway operation that returns, returns what index 0 of the response
\* holds (the content of the first choice, the embedding of the first data
\* entry), and two responses that agree at index 0 give the same result.
C7_ResultIsIndexZero ==
    /\ (op \in ChatOps /\ result.kind = "return") =>
          /\ outcome.kind = "response"
          /\ result.value = Head(outcome.response[1].choices).message.content
    /\ (op = "create_embedding_with_ada" /\ result.kind = "return") =>
          /\ outcome.kind = "response"
          /\ result.value = Head(outcome.response[1].data).embedding
    /\ (op \in ChatOps /\ result.kind = "return") =>
          \A r \in ChatResponses :
              (r.choices # <<>> /\ Head(r.choices) = Head(outcome.response[1].choices))
                  => ChatExtract(r) = result
    /\ (op = "create_embedding_with_ada" /\ result.kind = "return") =>
          \A r \in EmbeddingResponses :
              (r.data # <<>> /\ Head(r.data) = Head(outcome.response[1].data))
                  => EmbeddingExtract(r) = result

C7_Witness ==
    /\ op = "create_chat_completion"
    /\ outcome.kind = "response"
    /\ Len(outcome.response[1].choices) = 2
    /\ outcome.response[1].choices[1].message.content = "a"
    /\ outcome.response[1].choices[2].message.content = "b"
    /\ result = Return("a")

\* the text of one argument, read off the claim
ExpectedArgText(arg) ==
    CASE arg = NoneArg -> <<"N", "o", "n", "e">>
      [] arg = IntArg(1) -> <<"1">>
      [] OTHER -> arg.s

\* the texts in order, each but the first preceded by ", "
RECURSIVE ExpectedSArgs(_)
ExpectedSArgs(args) ==
    IF args = <<>> THEN <<>>
    ELSE LET n == Len(args)
         IN  IF n = 1 THEN ExpectedArgText(args[1])
             ELSE ExpectedSArgs(SubSeq(args, 1, n - 1)) \o <<",", " ">>
                  \o ExpectedArgText(args[n])

\* C8: call_ai_function sends exactly two messages, system then user, and the
\* user content is the arguments as text (None as "None") joined by ", " in
\* order: [1, None, "x"] gives "1, None, x" and [] gives "".
C8_TwoMessagesArgsJoined ==
    op = "call_ai_function" =>
        LET messages == sent[1].messages
        IN  /\ Len(messages) = 2
            /\ messages[1].role = "system"
            /\ messages[2].role = "user"
            /\ messages[2].content = ExpectedSArgs(call.args)
            /\ call.args = <<IntArg(1), NoneArg, StrArg(<<"x">>)>> =>
                  messages[2].content =
                      <<"1", ",", " ", "N", "o", "n", "e", ",", " ", "x">>
            /\ call.args = <<>> => messages[2].content = <<>>

C8_Witness ==
    /\ op = "call_ai_function"
    /\ call.args = <<IntArg(1), NoneArg, StrArg(<<"x">>)>>
    /\ sent[1].messages[2].content = <<"1", ",", " ", "N", "o", "n", "e", ",", " ", "x">>

\* C9: the request of a call_ai_function invocation carries temperature 0
\* whatever cfg.temperature is, and the caller's model or, when the caller
\* gives none, cfg.smart_llm_model.
C9_TemperatureZeroGivenModel ==
    op = "call_ai_function" =>
        /\ sent[1].temperature = Some(0)
        /\ sent[1].model =
              IF call.model.passed /\ call.model.value # None
              THEN call.model.value
              ELSE Some(cfg.smart_llm_model)

C9_Witness ==
    /\ op = "call_ai_function"
    /\ cfg.temperature # 0
    /\ ~call.model.passed
    /\ sent[1].temperature = Some(0)
    /\ sent[1].model = Some(cfg.smart_llm_model)

\* C10: when the provider call of a chat completion yields no response
\* object, the operation raises RuntimeError naming the model that was sent
\* (after defaulting); it is neither a rate-limit nor an API fault, nor the
\* fault of reading a missing response, and nothing is returned.
C10_MissingResponseIsInternalError ==
    (op \in ChatOps /\ outcome.kind = "none") =>
        /\ result.kind = "raise"
        /\ result.exc = "RuntimeError"
        /\ result.exc \notin {"RateLimitError", "APIError", "AttributeError", "TypeError"}
        /\ result.msg = <<"Failed to get response from model ", sent[1].model[1]>>

C10_Witness ==
    /\ op = "create_chat_completion"
    /\ outcome.kind = "none"
    /\ call.model = Passed(None)
    /\ cfg.fast_llm_model = "gpt-4"
    /\ result = Raise("RuntimeError", <<"Failed to get response from model ", "gpt-4">>)

====
